---- MODULE Spec2Model ----
(***************************************************************************)
(* WalkOut Store API (src/main.py): the relational store (users, products, *)
(* shopping sessions, cart items, receipts), the in-memory WebSocket       *)
(* ConnectionManager and the HTTP handlers that act on them.               *)
(*                                                                         *)
(* Money is counted in thousandths of a currency unit (3.50 is 3500), so   *)
(* that round(x, 2) is a real operation: it yields a multiple of 10.       *)
(*                                                                         *)
(* Three specifications share the variables and the handlers' operators:   *)
(*   Spec      one worker: every request runs from its first query to its  *)
(*             response before the next one starts; one push connection;   *)
(*             product prices change;                                      *)
(*   PushSpec  one worker, two push connections, prices fixed;             *)
(*   ConcSpec  the workers of the deployment run the session and cart      *)
(*             handlers in parallel and interleave at the store's          *)
(*             statement and commit boundaries and at the await of the     *)
(*             push; one push connection, prices fixed.                    *)
(* The store outlives the process: a run starts with the seeded products   *)
(* and one registered user.                                                *)
(***************************************************************************)
EXTENDS Integers, Sequences, FiniteSets, TLC

\* ------------------------------------------------------------------ bounds
\* Number of HTTP requests accepted in one run.
MaxRequests == 4

Workers == {"w1", "w2"}
Channels == {"A", "B"}
Phones == {"555-0100", "555-0199"}
UserIds == {1, 2}
ProductIds == {7, 8}
ProductArgs == {7, 8, 9}
Prices == {3500, 1250}
Quantities == {1, 2}
QuantityArgs == {0, 1, 2}
OtpCodes == {"1234", "0000"}
SessionArgs == {1, 2}
WsSessionIds == {1, 2}

VARIABLES
    users,               \* table users: sequence of phone numbers, id = index
    products,            \* table products: product id -> current price
    sessions,            \* table shopping_sessions: sequence of [user_id, status]
    cart_items,          \* table cart_items: set of rows
    receipts,            \* table receipts with their receipt_details
    active_connections,  \* ConnectionManager.active_connections: session id -> channel
    ws,                  \* the WebSocket connections: state, path session id, frames received
    req,                 \* per worker: the request it handles, its locals and its response
    nreq                 \* requests accepted so far

vars == <<users, products, sessions, cart_items, receipts, active_connections, ws, req, nreq>>
store == <<users, products, sessions, cart_items, receipts>>

\* ------------------------------------------------------------------ helpers
RECURSIVE SumSeq(_)
SumSeq(q) == IF q = <<>> THEN 0 ELSE Head(q) + SumSeq(Tail(q))

MinId(rows) == CHOOSE r \in rows : \A o \in rows : r.id <= o.id

\* The rows of a query result in primary-key order.
RECURSIVE SortById(_)
SortById(rows) ==
    IF rows = {} THEN <<>>
    ELSE LET r == MinId(rows) IN <<r>> \o SortById(rows \ {r})

\* Python's round(x, 2) on an amount in thousandths: nearest hundredth, ties to even.
Round2(x) ==
    LET c == x \div 10
        r == x % 10
    IN  IF r > 5 \/ (r = 5 /\ c % 2 = 1) THEN (c + 1) * 10 ELSE c * 10

NoSnap == [session_id |-> 0, items |-> <<>>, current_total |-> 0]

\* A worker between requests. While a handler runs, user_id .. rows hold its
\* arguments and locals; once it has answered (pc = "done") they are gone and
\* status, detail, ret and snap are the response the client got: the HTTP status,
\* which failure, the id of the user, session or receipt returned, the cart snapshot.
Idle == [op |-> "none", pc |-> "done", user_id |-> 0, session_id |-> 0,
         product_id |-> 0, quantity |-> 0, phone |-> "",
         row |-> 0, price |-> 0, rows |-> {},
         status |-> 0, detail |-> "", ret |-> 0, snap |-> NoSnap]

Answer(op, status, detail) ==
    [Idle EXCEPT !.op = op, !.status = status, !.detail = detail]

\* ------------------------------------------------------------------ queries
\* db.query(Shopping_Session).filter(id == session_id, status == 'active').first()
ActiveSession(ss, s) == s \in 1..Len(ss) /\ ss[s].status = "active"

\* Mutant: the pre-check forgets the status filter.
UserHasActiveSession_AnyStatus(ss, u) ==
    \E i \in 1..Len(ss) : ss[i].user_id = u

\* db.query(Shopping_Session).filter(user_id == u, status == 'active').first()
UserHasActiveSession(ss, u) ==
    \E i \in 1..Len(ss) : ss[i].user_id = u /\ ss[i].status = "active"

\* db.query(Cart_Item).filter(session_id == s, product_id == p)
CartItemsOf(ci, s, p) == {r \in ci : r.session_id = s /\ r.product_id = p}

\* db.query(Cart_Item).filter(session_id == s).all()
SessionCart(ci, s) == {r \in ci : r.session_id = s}

\* A primary key no row holds and no handler in flight still refers to.
FreshRowId(ci, rq) ==
    LET used == {r.id : r \in ci} \cup {rq[w].row : w \in Workers}
    IN  CHOOSE k \in 1..(Cardinality(used) + 1) : k \notin used

\* ------------------------------------------------------------------ ConnectionManager
\* Mutant: a session that has a subscriber keeps it.
connect_KeepFirst(ac, s, c) ==
    IF s \in DOMAIN ac THEN ac
    ELSE [x \in DOMAIN ac \cup {s} |-> IF x = s THEN c ELSE ac[x]]

\* ConnectionManager.connect: accept, then active_connections[session_id] = websocket
connect(ac, s, c) == [x \in DOMAIN ac \cup {s} |-> IF x = s THEN c ELSE ac[x]]

\* ConnectionManager.disconnect: del active_connections[session_id] if present
disconnect(ac, s) == [x \in DOMAIN ac \ {s} |-> ac[x]]

\* Mutant: the snapshot goes to every open channel of the session's path.
send_cart_update_FanOut(ac, w, s, snap) ==
    [ws |-> [c \in DOMAIN w |->
                IF w[c].state = "open" /\ w[c].session_id = s
                THEN [w[c] EXCEPT !.inbox = Append(@, snap)] ELSE w[c]],
     raised |-> FALSE]

\* ConnectionManager.send_cart_update: send_json to the registered channel, if any.
\* send_json on a channel that is no longer open raises, and nothing catches it.
send_cart_update(ac, w, s, snap) ==
    IF s \notin DOMAIN ac THEN [ws |-> w, raised |-> FALSE]
    ELSE LET c == ac[s] IN
         IF w[c].state = "open"
         THEN [ws |-> [w EXCEPT ![c].inbox = Append(@, snap)], raised |-> FALSE]
         ELSE [ws |-> w, raised |-> TRUE]

\* ------------------------------------------------------------------ schema (models.py, schemas.py)
\* models.Shopping_Session: the column default of status.
DefaultStatus == "active"

\* schemas.CartItemResponse: the price of a snapshot item is the row's price_at_pickup.
ItemPrice(row) == row.price_at_pickup

\* schemas.CartItemCreate: the quantity of an addItem request is a positive increment;
\* the request is refused (422) before the handler runs otherwise.
ValidQuantity(q) == q > 0

\* models.Cart_Item: (session_id, product_id) is described as a unique pair; the
\* declaration of the table is not among the sources.
UniquePairTaken(ci, s, p) == \E r \in ci : r.session_id = s /\ r.product_id = p

\* ------------------------------------------------------------------ register_user
RegisterPlan(us, ph) ==
    IF \E i \in 1..Len(us) : us[i] = ph
    THEN [status |-> 409, detail |-> "Phone number already registered."]
    ELSE [status |-> 0, detail |-> ""]

RegisterWrite(us, ph) == Append(us, ph)

\* ------------------------------------------------------------------ verify_user
dummy_otp == "1234"

\* Lines 119-123: the user of the phone number, and the code compared with dummy_otp.
VerifyPlan(us, ph, code) ==
    IF (~\E i \in 1..Len(us) : us[i] = ph) \/ code # dummy_otp
    THEN [status |-> 401, detail |-> "Invalid phone number or OTP code.", user_id |-> 0]
    ELSE [status |-> 0, detail |-> "",
          user_id |-> CHOOSE i \in 1..Len(us) : us[i] = ph]

\* ------------------------------------------------------------------ start_shopping_session
StartPlan(us, ss, u) ==
    IF u \notin 1..Len(us) THEN [status |-> 404, detail |-> "User not found."]
    ELSE IF UserHasActiveSession(ss, u)
    THEN [status |-> 409, detail |-> "User already has an active session."]
    ELSE [status |-> 0, detail |-> ""]

\* Mutant: a user who has a completed session gets it back, active again.
StartWrite_Reactivate(ss, u) ==
    IF \E i \in 1..Len(ss) : ss[i].user_id = u
    THEN LET i == CHOOSE k \in 1..Len(ss) : ss[k].user_id = u
         IN  [ss EXCEPT ![i].status = DefaultStatus]
    ELSE Append(ss, [user_id |-> u, status |-> DefaultStatus])

StartWrite(ss, u) == Append(ss, [user_id |-> u, status |-> DefaultStatus])

\* ------------------------------------------------------------------ add_item_to_cart
\* Mutant: the handler never looks for the line item and always inserts one.
AddItemPlan_AlwaysInsert(ss, pr, ci, s, p, q) ==
    IF ~ActiveSession(ss, s)
    THEN [status |-> 404, detail |-> "Active session not found", row |-> 0,
          quantity |-> 0, price |-> 0]
    ELSE IF p \notin DOMAIN pr
    THEN [status |-> 404, detail |-> "Product not found", row |-> 0,
          quantity |-> 0, price |-> 0]
    ELSE [status |-> 0, detail |-> "", row |-> 0, quantity |-> q, price |-> pr[p]]

\* Mutant: the quantity of the request replaces the quantity of the line item.
AddItemPlan_Overwrite(ss, pr, ci, s, p, q) ==
    IF ~ActiveSession(ss, s)
    THEN [status |-> 404, detail |-> "Active session not found", row |-> 0,
          quantity |-> 0, price |-> 0]
    ELSE IF p \notin DOMAIN pr
    THEN [status |-> 404, detail |-> "Product not found", row |-> 0,
          quantity |-> 0, price |-> 0]
    ELSE LET found == CartItemsOf(ci, s, p) IN
         IF found # {}
         THEN LET it == MinId(found) IN
              [status |-> 0, detail |-> "", row |-> it.id,
               quantity |-> q, price |-> it.price_at_pickup]
         ELSE [status |-> 0, detail |-> "", row |-> 0, quantity |-> q, price |-> pr[p]]

\* Lines 160-173: the three queries and the pending change of the unit of work.
\* row = 0 is a pending INSERT, row = k a pending UPDATE of row k's quantity.
AddItemPlan(ss, pr, ci, s, p, q) ==
    IF ~ActiveSession(ss, s)
    THEN [status |-> 404, detail |-> "Active session not found", row |-> 0,
          quantity |-> 0, price |-> 0]
    ELSE IF p \notin DOMAIN pr
    THEN [status |-> 404, detail |-> "Product not found", row |-> 0,
          quantity |-> 0, price |-> 0]
    ELSE LET found == CartItemsOf(ci, s, p) IN
         IF found # {}
         THEN LET it == MinId(found) IN
              [status |-> 0, detail |-> "", row |-> it.id,
               quantity |-> it.quantity + q, price |-> it.price_at_pickup]
         ELSE [status |-> 0, detail |-> "", row |-> 0, quantity |-> q, price |-> pr[p]]

\* db.commit() of an UPDATE: the row must still be there (StaleDataError otherwise).
RowPresent(ci, k) == \E r \in ci : r.id = k

\* Mutant: the UPDATE of the quantity is lost.
UpdateQuantity_NotStored(ci, k, q) == ci

UpdateQuantity(ci, k, q) ==
    {IF r.id = k THEN [r EXCEPT !.quantity = q] ELSE r : r \in ci}

InsertCartItem(ci, id, s, p, q, price) ==
    ci \cup {[id |-> id, session_id |-> s, product_id |-> p, quantity |-> q,
              price_at_pickup |-> price]}

\* Line 175: db.commit() of add_item_to_cart.
AddItemWrite(ci, rq, s, p, plan) ==
    IF plan.row = 0
    THEN InsertCartItem(ci, FreshRowId(ci, rq), s, p, plan.quantity, plan.price)
    ELSE UpdateQuantity(ci, plan.row, plan.quantity)

\* Lines 177-180 and 198-201: the cart re-read, joined with products, and its total.
CartItemResponse(row) ==
    [product_id |-> row.product_id, quantity |-> row.quantity, price |-> ItemPrice(row)]

ResponseItems(pr, ci, s) ==
    LET rows == SortById({r \in SessionCart(ci, s) : r.product_id \in DOMAIN pr})
    IN  [i \in 1..Len(rows) |-> CartItemResponse(rows[i])]

\* Mutant: the total forgets the quantities.
CurrentTotal_NoQuantity(items) ==
    Round2(SumSeq([i \in 1..Len(items) |-> items[i].price]))

CurrentTotal(items) ==
    Round2(SumSeq([i \in 1..Len(items) |-> items[i].quantity * items[i].price]))

CartResponse(pr, ci, s) ==
    LET items == ResponseItems(pr, ci, s)
    IN  [session_id |-> s, items |-> items, current_total |-> CurrentTotal(items)]

\* ------------------------------------------------------------------ remove_item_from_cart
\* Mutant: the line item is deleted whatever its quantity.
RemoveItemPlan_DeleteAlways(ci, s, p) ==
    LET found == CartItemsOf(ci, s, p) IN
    IF found = {}
    THEN [status |-> 404, detail |-> "Item not in cart.", row |-> 0, quantity |-> 0]
    ELSE [status |-> 0, detail |-> "", row |-> MinId(found).id, quantity |-> 0]

\* Lines 187-194: the query and the pending change. quantity = 0 is a pending DELETE.
RemoveItemPlan(ci, s, p) ==
    LET found == CartItemsOf(ci, s, p) IN
    IF found = {}
    THEN [status |-> 404, detail |-> "Item not in cart.", row |-> 0, quantity |-> 0]
    ELSE LET it == MinId(found) IN
         IF it.quantity > 1
         THEN [status |-> 0, detail |-> "", row |-> it.id, quantity |-> it.quantity - 1]
         ELSE [status |-> 0, detail |-> "", row |-> it.id, quantity |-> 0]

\* Mutant: the commit never deletes, it stores the quantity of the plan.
RemoveItemWrite_KeepsRow(ci, plan) == UpdateQuantity(ci, plan.row, plan.quantity)

\* Line 196: db.commit() of remove_item_from_cart.
RemoveItemWrite(ci, plan) ==
    IF plan.quantity = 0
    THEN {r \in ci : r.id # plan.row}
    ELSE UpdateQuantity(ci, plan.row, plan.quantity)

\* ------------------------------------------------------------------ checkout
\* Mutant: the total is taken from the products' current prices.
TotalAmount_LivePrices(rows) ==
    LET q == SortById(rows)
    IN  Round2(SumSeq([i \in 1..Len(q) |-> q[i].quantity * products[q[i].product_id]]))

\* Mutant: the empty cart is not refused.
CheckoutPlan_NoEmptyCheck(ss, ci, s) ==
    IF ~ActiveSession(ss, s)
    THEN [status |-> 404, detail |-> "Active session not found.", rows |-> {}]
    ELSE [status |-> 0, detail |-> "", rows |-> SessionCart(ci, s)]

\* Lines 208-216: the queries and the total of the rows read.
TotalAmount(rows) ==
    LET q == SortById(rows)
    IN  Round2(SumSeq([i \in 1..Len(q) |-> q[i].quantity * q[i].price_at_pickup]))

CheckoutPlan(ss, ci, s) ==
    IF ~ActiveSession(ss, s)
    THEN [status |-> 404, detail |-> "Active session not found.", rows |-> {}]
    ELSE LET rows == SessionCart(ci, s) IN
         IF rows = {} THEN [status |-> 400, detail |-> "Cart is empty.", rows |-> {}]
         ELSE [status |-> 0, detail |-> "", rows |-> rows]

\* Lines 227-232: one Receipt_Details per cart item read.
ReceiptDetails(rows) ==
    LET q == SortById(rows)
    IN  [i \in 1..Len(q) |->
            [product_id |-> q[i].product_id, quantity |-> q[i].quantity,
             price |-> q[i].price_at_pickup,
             subtotal |-> q[i].quantity * q[i].price_at_pickup]]

\* Lines 222-224: the Receipt. The transaction id is a fresh uuid, left out.
NewReceipt(s, rows) ==
    [session_id |-> s, total_amount |-> TotalAmount(rows), details |-> ReceiptDetails(rows)]

\* Line 234: session.status = 'completed'
CompleteSession(ss, s) == [ss EXCEPT ![s].status = "completed"]

\* ------------------------------------------------------------------ initial state
Init ==
    /\ users = <<"555-0100">>
    /\ products = [p \in ProductIds |-> IF p = 7 THEN 3500 ELSE 1250]
    /\ sessions = <<>>
    /\ cart_items = {}
    /\ receipts = <<>>
    /\ active_connections = <<>>
    /\ ws = [c \in Channels |-> [state |-> "new", session_id |-> 0, inbox |-> <<>>]]
    /\ req = [w \in Workers |-> Idle]
    /\ nreq = 0

\* A worker takes a request when it has answered the one before.
Accept(w) == req[w].pc = "done" /\ nreq' = nreq + 1

\* A run accepts MaxRequests requests.
Budget == nreq < MaxRequests

Respond(w, r) == req' = [req EXCEPT ![w] = r]

\* ------------------------------------------------------------------ handlers, start to response
\* POST /auth/register
register_user(w, ph) ==
    /\ Accept(w)
    /\ LET plan == RegisterPlan(users, ph) IN
       IF plan.status # 0
       THEN /\ Respond(w, Answer("register", plan.status, plan.detail))
            /\ UNCHANGED users
       ELSE /\ users' = RegisterWrite(users, ph)
            /\ Respond(w, [Answer("register", 201, "") EXCEPT !.ret = Len(users')])
    /\ UNCHANGED <<products, sessions, cart_items, receipts, active_connections, ws>>

\* POST /auth/verify: the token returned carries the user's id.
verify_user(w, ph, code) ==
    /\ Accept(w)
    /\ LET plan == VerifyPlan(users, ph, code) IN
       IF plan.status # 0
       THEN Respond(w, Answer("verify", plan.status, plan.detail))
       ELSE Respond(w, [Answer("verify", 200, "") EXCEPT !.ret = plan.user_id])
    /\ UNCHANGED <<store, active_connections, ws>>

\* POST /sessions/start
start_shopping_session(w, u) ==
    /\ Accept(w)
    /\ LET plan == StartPlan(users, sessions, u) IN
       IF plan.status # 0
       THEN /\ Respond(w, Answer("start", plan.status, plan.detail))
            /\ UNCHANGED sessions
       ELSE /\ sessions' = StartWrite(sessions, u)
            /\ Respond(w, [Answer("start", 201, "") EXCEPT !.ret = Len(sessions')])
    /\ UNCHANGED <<users, products, cart_items, receipts, active_connections, ws>>

\* Lines 177-183 and 198-204: re-read the cart, push the snapshot, return it.
\* An exception of the push leaves the handler: the client gets a 500.
PushAndReturn(w, op, s, ci) ==
    LET snap == CartResponse(products, ci, s)
        out == send_cart_update(active_connections, ws, s, snap)
    IN  /\ ws' = out.ws
        /\ IF out.raised
           THEN Respond(w, Answer(op, 500, "Internal Server Error"))
           ELSE Respond(w, [Answer(op, 200, "") EXCEPT !.snap = snap])

\* POST /sessions/{session_id}/cart/items
add_item_to_cart(w, s, p, q) ==
    /\ Accept(w)
    /\ LET plan == AddItemPlan(sessions, products, cart_items, s, p, q) IN
       IF ~ValidQuantity(q)
       THEN /\ Respond(w, Answer("add", 422, "Unprocessable Entity"))
            /\ UNCHANGED <<cart_items, ws>>
       ELSE IF plan.status # 0
       THEN /\ Respond(w, Answer("add", plan.status, plan.detail))
            /\ UNCHANGED <<cart_items, ws>>
       ELSE /\ cart_items' = AddItemWrite(cart_items, req, s, p, plan)
            /\ PushAndReturn(w, "add", s, cart_items')
    /\ UNCHANGED <<users, products, sessions, receipts, active_connections>>

\* DELETE /sessions/{session_id}/cart/items/{product_id}
remove_item_from_cart(w, s, p) ==
    /\ Accept(w)
    /\ LET plan == RemoveItemPlan(cart_items, s, p) IN
       IF plan.status # 0
       THEN /\ Respond(w, Answer("remove", plan.status, plan.detail))
            /\ UNCHANGED <<cart_items, ws>>
       ELSE /\ cart_items' = RemoveItemWrite(cart_items, plan)
            /\ PushAndReturn(w, "remove", s, cart_items')
    /\ UNCHANGED <<users, products, sessions, receipts, active_connections>>

\* Mutant: checkout pushes the final cart to the session's subscriber.
checkout_Publishes(w, s) ==
    /\ Accept(w)
    /\ LET plan == CheckoutPlan(sessions, cart_items, s) IN
       IF plan.status # 0
       THEN /\ Respond(w, Answer("checkout", plan.status, plan.detail))
            /\ UNCHANGED <<sessions, receipts, ws>>
       ELSE /\ receipts' = Append(receipts, NewReceipt(s, plan.rows))
            /\ sessions' = CompleteSession(sessions, s)
            /\ ws' = send_cart_update(active_connections, ws, s,
                                      CartResponse(products, cart_items, s)).ws
            /\ Respond(w, [Answer("checkout", 200, "") EXCEPT !.ret = Len(receipts')])
    /\ UNCHANGED <<users, products, cart_items, active_connections>>

\* POST /sessions/{session_id}/checkout
checkout(w, s) ==
    /\ Accept(w)
    /\ LET plan == CheckoutPlan(sessions, cart_items, s) IN
       IF plan.status # 0
       THEN /\ Respond(w, Answer("checkout", plan.status, plan.detail))
            /\ UNCHANGED <<sessions, receipts>>
       ELSE /\ receipts' = Append(receipts, NewReceipt(s, plan.rows))
            /\ sessions' = CompleteSession(sessions, s)
            /\ Respond(w, [Answer("checkout", 200, "") EXCEPT !.ret = Len(receipts')])
    /\ UNCHANGED <<users, products, cart_items, active_connections, ws>>

\* ------------------------------------------------------------------ environment
\* The products table is maintained outside this program: a price changes.
ChangePrice(p, v) ==
    /\ v # products[p]
    /\ products' = [products EXCEPT ![p] = v]
    /\ UNCHANGED <<users, sessions, cart_items, receipts, active_connections, ws, req, nreq>>

\* websocket_endpoint, line 96: a client opens /ws/cart/{session_id}.
WsConnect(c, s) ==
    /\ ws[c].state = "new"
    /\ ws' = [ws EXCEPT ![c].state = "open", ![c].session_id = s]
    /\ active_connections' = connect(active_connections, s, c)
    /\ UNCHANGED <<store, req, nreq>>

\* The channel closes (client disconnect, network failure); the endpoint, blocked in
\* receive_text, has not run yet.
WsClose(c) ==
    /\ ws[c].state = "open"
    /\ ws' = [ws EXCEPT ![c].state = "closed"]
    /\ UNCHANGED <<store, active_connections, req, nreq>>

\* websocket_endpoint, lines 100-101: WebSocketDisconnect is raised in the endpoint.
WsDisconnect(c) ==
    /\ ws[c].state = "closed"
    /\ ws' = [ws EXCEPT ![c].state = "gone"]
    /\ active_connections' = disconnect(active_connections, ws[c].session_id)
    /\ UNCHANGED <<store, req, nreq>>

Requests(w) ==
    \/ \E ph \in Phones : Budget /\ register_user(w, ph)
    \/ \E ph \in Phones, code \in OtpCodes : Budget /\ verify_user(w, ph, code)
    \/ \E u \in UserIds : Budget /\ start_shopping_session(w, u)
    \/ \E s \in SessionArgs, p \in ProductArgs, q \in QuantityArgs :
          Budget /\ add_item_to_cart(w, s, p, q)
    \/ \E s \in SessionArgs, p \in ProductArgs : Budget /\ remove_item_from_cart(w, s, p)
    \/ \E s \in SessionArgs : Budget /\ checkout(w, s)

\* One worker, one push connection, prices that change.
Next ==
    \/ Requests("w1")
    \/ \E p \in ProductIds, v \in Prices : ChangePrice(p, v)
    \/ \E s \in WsSessionIds : WsConnect("A", s)
    \/ WsClose("A")
    \/ WsDisconnect("A")

Spec == Init /\ [][Next]_vars

\* One worker, two push connections (B connects after A), prices fixed.
PushNext ==
    \/ Requests("w1")
    \/ \E c \in Channels, s \in WsSessionIds :
          (c = "A" \/ ws["A"].state # "new") /\ WsConnect(c, s)
    \/ \E c \in Channels : WsClose(c)
    \/ \E c \in Channels : WsDisconnect(c)

PushSpec == Init /\ [][PushNext]_vars

\* ------------------------------------------------------------------ one customer's visit
\* The tables of a fresh deployment: no user yet.
ScenarioInit ==
    /\ users = <<>>
    /\ products = [p \in ProductIds |-> IF p = 7 THEN 3500 ELSE 1250]
    /\ sessions = <<>>
    /\ cart_items = {}
    /\ receipts = <<>>
    /\ active_connections = <<>>
    /\ ws = [c \in Channels |-> [state |-> "new", session_id |-> 0, inbox |-> <<>>]]
    /\ req = [w \in Workers |-> Idle]
    /\ nreq = 0

\* The requests of the visit, in order: register, verify, start, add 2, add 1, remove,
\* checkout. Meanwhile push clients connect and prices change (product 7 is 3.50
\* when it is first added).
ScenarioNext ==
    \/ nreq = 0 /\ register_user("w1", "555-0100")
    \/ nreq = 1 /\ verify_user("w1", "555-0100", "1234")
    \/ nreq = 2 /\ start_shopping_session("w1", 1)
    \/ nreq = 3 /\ add_item_to_cart("w1", 1, 7, 2)
    \/ nreq = 4 /\ add_item_to_cart("w1", 1, 7, 1)
    \/ nreq = 5 /\ remove_item_from_cart("w1", 1, 7)
    \/ nreq = 6 /\ checkout("w1", 1)
    \/ \E p \in ProductIds, v \in Prices : (p # 7 \/ nreq > 3) /\ ChangePrice(p, v)
    \/ \E c \in Channels, s \in WsSessionIds : WsConnect(c, s)

ScenarioSpec == ScenarioInit /\ [][ScenarioNext]_vars

\* ------------------------------------------------------------------ handlers, step by step
\* The same handlers as the workers of a deployment run them side by side: a step
\* ends where the handler waits for the store (its queries, its commit, its re-read)
\* or for the push. The locals a handler carries from one step to the next are in req.
Running(w, op, pc) == req[w].op = op /\ req[w].pc = pc

\* start_shopping_session, lines 141-150
StartQuery(w, u) ==
    /\ Accept(w)
    /\ LET plan == StartPlan(users, sessions, u) IN
       IF plan.status # 0
       THEN Respond(w, Answer("start", plan.status, plan.detail))
       ELSE Respond(w, [Idle EXCEPT !.op = "start", !.pc = "commit", !.user_id = u])
    /\ UNCHANGED <<store, active_connections, ws>>

\* start_shopping_session, lines 152-156
StartCommit(w) ==
    /\ Running(w, "start", "commit")
    /\ sessions' = StartWrite(sessions, req[w].user_id)
    /\ Respond(w, [Answer("start", 201, "") EXCEPT !.ret = Len(sessions')])
    /\ UNCHANGED <<users, products, cart_items, receipts, active_connections, ws, nreq>>

\* add_item_to_cart, lines 160-173
AddItemQuery(w, s, p, q) ==
    /\ Accept(w)
    /\ LET plan == AddItemPlan(sessions, products, cart_items, s, p, q) IN
       IF ~ValidQuantity(q)
       THEN Respond(w, Answer("add", 422, "Unprocessable Entity"))
       ELSE IF plan.status # 0
       THEN Respond(w, Answer("add", plan.status, plan.detail))
       ELSE Respond(w, [Idle EXCEPT !.op = "add", !.pc = "commit", !.session_id = s,
                                    !.product_id = p, !.row = plan.row,
                                    !.quantity = plan.quantity, !.price = plan.price])
    /\ UNCHANGED <<store, active_connections, ws>>

\* add_item_to_cart, line 175. The UPDATE of a row that is gone raises StaleDataError.
\* The INSERT of a second row of a (session, product) pair raises IntegrityError if
\* the table declares the pair unique and goes through if it does not: both happen.
AddItemCommit(w) ==
    /\ Running(w, "add", "commit")
    /\ \/ /\ \/ req[w].row # 0 /\ ~RowPresent(cart_items, req[w].row)
             \/ req[w].row = 0 /\ UniquePairTaken(cart_items, req[w].session_id,
                                                  req[w].product_id)
          /\ Respond(w, Answer("add", 500, "Internal Server Error"))
          /\ UNCHANGED cart_items
       \/ /\ req[w].row # 0 => RowPresent(cart_items, req[w].row)
          /\ cart_items' = AddItemWrite(cart_items, req, req[w].session_id,
                                        req[w].product_id, req[w])
          /\ Respond(w, [req[w] EXCEPT !.pc = "reread", !.row = 0, !.quantity = 0,
                                       !.price = 0])
    /\ UNCHANGED <<users, products, sessions, receipts, active_connections, ws, nreq>>

\* remove_item_from_cart, lines 187-194
RemoveItemQuery(w, s, p) ==
    /\ Accept(w)
    /\ LET plan == RemoveItemPlan(cart_items, s, p) IN
       IF plan.status # 0
       THEN Respond(w, Answer("remove", plan.status, plan.detail))
       ELSE Respond(w, [Idle EXCEPT !.op = "remove", !.pc = "commit", !.session_id = s,
                                    !.product_id = p, !.row = plan.row,
                                    !.quantity = plan.quantity])
    /\ UNCHANGED <<store, active_connections, ws>>

\* remove_item_from_cart, line 196. The UPDATE of a row that is gone raises
\* StaleDataError; the DELETE of one only warns.
RemoveItemCommit(w) ==
    /\ Running(w, "remove", "commit")
    /\ IF req[w].quantity # 0 /\ ~RowPresent(cart_items, req[w].row)
       THEN /\ Respond(w, Answer("remove", 500, "Internal Server Error"))
            /\ UNCHANGED cart_items
       ELSE /\ cart_items' = RemoveItemWrite(cart_items, req[w])
            /\ Respond(w, [req[w] EXCEPT !.pc = "reread", !.row = 0, !.quantity = 0])
    /\ UNCHANGED <<users, products, sessions, receipts, active_connections, ws, nreq>>

\* add_item_to_cart, lines 177-180, and remove_item_from_cart, lines 198-201
CartReread(w) ==
    /\ req[w].pc = "reread"
    /\ Respond(w, [req[w] EXCEPT !.pc = "push",
                                 !.snap = CartResponse(products, cart_items, req[w].session_id)])
    /\ UNCHANGED <<store, active_connections, ws, nreq>>

\* add_item_to_cart, lines 182-183, and remove_item_from_cart, lines 203-204
CartPush(w) ==
    /\ req[w].pc = "push"
    /\ LET out == send_cart_update(active_connections, ws, req[w].session_id, req[w].snap) IN
       /\ ws' = out.ws
       /\ IF out.raised
          THEN Respond(w, Answer(req[w].op, 500, "Internal Server Error"))
          ELSE Respond(w, [Answer(req[w].op, 200, "") EXCEPT !.snap = req[w].snap])
    /\ UNCHANGED <<store, active_connections, nreq>>

\* checkout, lines 208-216
CheckoutQuery(w, s) ==
    /\ Accept(w)
    /\ LET plan == CheckoutPlan(sessions, cart_items, s) IN
       IF plan.status # 0
       THEN Respond(w, Answer("checkout", plan.status, plan.detail))
       ELSE Respond(w, [Idle EXCEPT !.op = "checkout", !.pc = "commit", !.session_id = s,
                                    !.rows = plan.rows])
    /\ UNCHANGED <<store, active_connections, ws>>

\* checkout, lines 222-238
CheckoutCommit(w) ==
    /\ Running(w, "checkout", "commit")
    /\ receipts' = Append(receipts, NewReceipt(req[w].session_id, req[w].rows))
    /\ sessions' = CompleteSession(sessions, req[w].session_id)
    /\ Respond(w, [Answer("checkout", 200, "") EXCEPT !.ret = Len(receipts')])
    /\ UNCHANGED <<users, products, cart_items, active_connections, ws, nreq>>

\* The workers run the session and cart handlers in parallel; one push connection.
ConcNext ==
    \/ \E w \in Workers, u \in UserIds : Budget /\ StartQuery(w, u)
    \/ \E w \in Workers : StartCommit(w)
    \/ \E w \in Workers, s \in SessionArgs, p \in ProductArgs, q \in QuantityArgs :
          Budget /\ AddItemQuery(w, s, p, q)
    \/ \E w \in Workers : AddItemCommit(w)
    \/ \E w \in Workers, s \in SessionArgs, p \in ProductArgs :
          Budget /\ RemoveItemQuery(w, s, p)
    \/ \E w \in Workers : RemoveItemCommit(w)
    \/ \E w \in Workers : CartReread(w)
    \/ \E w \in Workers : CartPush(w)
    \/ \E w \in Workers, s \in SessionArgs : Budget /\ CheckoutQuery(w, s)
    \/ \E w \in Workers : CheckoutCommit(w)
    \/ \E s \in WsSessionIds : WsConnect("A", s)
    \/ WsClose("A")
    \/ WsDisconnect("A")

ConcSpec == Init /\ [][ConcNext]_vars

\* ================================================================== properties
\* What the properties read off the store, stated apart from the handlers' queries.
StatusOf(s) == IF s \in 1..Len(sessions) THEN sessions[s].status ELSE "missing"

ActiveSessionsOf(u) ==
    {i \in 1..Len(sessions) : sessions[i].user_id = u /\ sessions[i].status = "active"}

LineItems(ci, s) == {r \in ci : r.session_id = s}

RECURSIVE LineItemsValue(_)
LineItemsValue(rows) ==
    IF rows = {} THEN 0
    ELSE LET r == CHOOSE x \in rows : TRUE
         IN  r.quantity * r.price_at_pickup + LineItemsValue(rows \ {r})

\* t is x rounded to 2 decimals: a whole number of hundredths, at most half of one away.
RoundedTo2(t, x) == t % 10 = 0 /\ 2 * (t - x) <= 10 /\ 2 * (x - t) <= 10

CartCall(r) == r.op \in {"add", "remove"}

\* ------------------------------------------------------------------ C1
\* C1: the currentTotal of the snapshot a successful addItem or removeItem returns is
\* the sum of quantity x price_at_pickup over the line items left in that session's
\* cart, rounded to 2 decimals (0 for an empty cart), and a snapshot pushed by the
\* call is the snapshot returned.
C1_ReturnedTotal ==
    \A w \in Workers :
        (CartCall(req[w]) /\ req[w].status = 200) =>
            LET rows == LineItems(cart_items, req[w].snap.session_id) IN
            /\ RoundedTo2(req[w].snap.current_total, LineItemsValue(rows))
            /\ (rows = {} => req[w].snap.current_total = 0)
            /\ Len(req[w].snap.items) = Cardinality(rows)

C1_PushedIsReturned ==
    \A c \in Channels :
        ws'[c].inbox # ws[c].inbox =>
            \E w \in Workers :
                /\ CartCall(req'[w]) /\ req'[w].status = 200
                /\ ws'[c].inbox = Append(ws[c].inbox, req'[w].snap)

C1_TotalIsCartSum == []C1_ReturnedTotal /\ [][C1_PushedIsReturned]_vars

\* A removeItem answered with the total of the two line items it left.
C1_Witness ==
    /\ req["w1"].op = "remove" /\ req["w1"].status = 200
    /\ Cardinality(LineItems(cart_items, req["w1"].snap.session_id)) = 2
    /\ req["w1"].snap.current_total > 0
    /\ \E c \in Channels : ws[c].inbox # <<>> /\ ws[c].inbox[Len(ws[c].inbox)] = req["w1"].snap

\* ------------------------------------------------------------------ C2
\* C2: addItem, removeItem and checkout against a session id that is missing or
\* completed each answer 404 and leave the cart line items and the receipts as
\* they were.
C2_Refused(w) ==
    /\ req'[w].status = 404
    /\ cart_items' = cart_items
    /\ receipts' = receipts

C2_NeedsActiveSession ==
    \A s \in SessionArgs :
        StatusOf(s) # "active" =>
            /\ \A p \in ProductArgs, q \in Quantities : add_item_to_cart("w1", s, p, q) => C2_Refused("w1")
            /\ \A p \in ProductArgs : remove_item_from_cart("w1", s, p) => C2_Refused("w1")
            /\ checkout("w1", s) => C2_Refused("w1")

C2_SessionMustBeActive == [][C2_NeedsActiveSession]_vars

\* ------------------------------------------------------------------ C3
\* C3: every user has at most one session with status active, also while
\* startSession requests of the same user run side by side.
C3_OneActiveSessionPerUser ==
    \A u \in UserIds : Cardinality(ActiveSessionsOf(u)) <= 1

\* ------------------------------------------------------------------ C4
\* C4: startSession for a user with an active session answers 409 and creates no
\* session; for a registered user with none (never started, or every session
\* completed by checkout) it answers 201 and appends one active session of that user.
C4_StartOutcome ==
    \A u \in UserIds :
        start_shopping_session("w1", u) =>
            /\ ActiveSessionsOf(u) # {} =>
                  /\ req'["w1"].status = 409
                  /\ sessions' = sessions
            /\ (u \in 1..Len(users) /\ ActiveSessionsOf(u) = {}) =>
                  /\ req'["w1"].status = 201
                  /\ sessions' = Append(sessions, [user_id |-> u, status |-> "active"])
                  /\ req'["w1"].ret = Len(sessions')

C4_ConflictThenRestart == [][C4_StartOutcome]_vars

\* A second session of a user was started after checkout completed the first.
C4_Witness ==
    /\ req["w1"].op = "start" /\ req["w1"].status = 201
    /\ \E i, j \in 1..Len(sessions) :
          /\ i < j /\ sessions[i].user_id = sessions[j].user_id
          /\ sessions[i].status = "completed" /\ sessions[j].status = "active"
          /\ \E k \in 1..Len(receipts) : receipts[k].session_id = i

\* ------------------------------------------------------------------ C5
\* C5: a channel receives a frame only while it is open and is the registered
\* subscriber of its session, and the frame is the snapshot of a successful addItem
\* or removeItem on that session (so none from before it subscribed, none once it
\* has closed); while it is open and registered it receives the snapshot of every
\* such call; a call on a session with no subscriber delivers to no channel and
\* answers 200.
C5_OnlyToSubscriber ==
    \A c \in Channels :
        ws'[c].inbox # ws[c].inbox =>
            /\ ws[c].state = "open"
            /\ ws[c].session_id \in DOMAIN active_connections
            /\ active_connections[ws[c].session_id] = c
            /\ CartCall(req'["w1"]) /\ req'["w1"].status = 200
            /\ req'["w1"].snap.session_id = ws[c].session_id
            /\ ws'[c].inbox = Append(ws[c].inbox, req'["w1"].snap)

C5_CartChanged(s) ==
    /\ cart_items' # cart_items
    /\ \/ \E p \in ProductArgs, q \in Quantities : add_item_to_cart("w1", s, p, q)
       \/ \E p \in ProductArgs : remove_item_from_cart("w1", s, p)

C5_NoneSkipped ==
    \A s \in SessionArgs, c \in Channels :
        (/\ C5_CartChanged(s)
         /\ s \in DOMAIN active_connections
         /\ active_connections[s] = c
         /\ ws[c].state = "open") =>
            /\ Len(ws'[c].inbox) = Len(ws[c].inbox) + 1
            /\ ws'[c].inbox[Len(ws'[c].inbox)].session_id = s
            /\ LET rows == LineItems(cart_items', s) IN
               RoundedTo2(ws'[c].inbox[Len(ws'[c].inbox)].current_total, LineItemsValue(rows))

C5_NoSubscriber ==
    \A s \in SessionArgs :
        (C5_CartChanged(s) /\ s \notin DOMAIN active_connections) =>
            /\ \A c \in Channels : ws'[c].inbox = ws[c].inbox
            /\ req'["w1"].status = 200

C5_ConnectPushesNothing ==
    \A c \in Channels : ws[c].state = "new" => ws[c].inbox = <<>> /\ ws'[c].inbox = <<>>

C5_SubscriberReceives ==
    [][C5_OnlyToSubscriber /\ C5_NoneSkipped /\ C5_NoSubscriber /\ C5_ConnectPushesNothing]_vars

\* Channel A subscribed after a first snapshot of session 1 was published and got the
\* second one only; after it closed and unsubscribed a third call delivered nothing.
C5_Witness ==
    /\ ws["A"].state = "gone" /\ ws["A"].session_id = 1
    /\ Len(ws["A"].inbox) = 1
    /\ Cardinality(LineItems(cart_items, 1)) = 2
    /\ Len(ws["A"].inbox[1].items) = 2
    /\ CartCall(req["w1"]) /\ req["w1"].status = 200
    /\ req["w1"].snap.session_id = 1
    /\ req["w1"].snap # ws["A"].inbox[1]

\* ------------------------------------------------------------------ C6
\* C6: an addItem or removeItem that changed the cart answers 200 with the cart
\* snapshot, also when the push to the session's subscriber fails.
C6_MutationAnswered ==
    \A w \in Workers :
        (CartCall(req'[w]) /\ cart_items' # cart_items) =>
            /\ req'[w].status = 200
            /\ req'[w].snap.session_id # 0

C6_PushFailureSwallowed == [][C6_MutationAnswered]_vars

\* ------------------------------------------------------------------ C7
\* C7: a line item's price_at_pickup is the product's price when the line item was
\* created and never changes afterwards (not by a repeat add, not by a price
\* change); the total of the receipt a checkout creates is the sum of
\* quantity x price_at_pickup over the session's line items, rounded to 2 decimals.
C7_PriceFixedAtFirstAdd ==
    /\ \A r \in cart_items' :
          (\A o \in cart_items : o.id # r.id) =>
              r.price_at_pickup = products[r.product_id]
    /\ \A o \in cart_items, r \in cart_items' :
          o.id = r.id =>
              /\ r.price_at_pickup = o.price_at_pickup
              /\ r.product_id = o.product_id /\ r.session_id = o.session_id

C7_TotalAtCheckout ==
    \A s \in SessionArgs :
        (checkout("w1", s) /\ req'["w1"].status = 200) =>
            /\ Len(receipts') = Len(receipts) + 1
            /\ receipts'[Len(receipts')].session_id = s
            /\ RoundedTo2(receipts'[Len(receipts')].total_amount,
                          LineItemsValue(LineItems(cart_items, s)))

C7_ReceiptTotal == [][C7_PriceFixedAtFirstAdd /\ C7_TotalAtCheckout]_vars

\* A receipt for a line item added twice whose product's price changed since.
C7_Witness ==
    /\ req["w1"].op = "checkout" /\ req["w1"].status = 200
    /\ \E r \in cart_items :
          /\ r.session_id = receipts[Len(receipts)].session_id
          /\ r.quantity >= 3
          /\ r.price_at_pickup # products[r.product_id]
          /\ receipts[Len(receipts)].total_amount = r.quantity * r.price_at_pickup

\* ------------------------------------------------------------------ C8
\* C8: checkout of an active session whose cart has no line item answers 400 and
\* changes nothing: the session stays active, no receipt is created.
C8_EmptyCart ==
    \A s \in SessionArgs :
        (checkout("w1", s) /\ StatusOf(s) = "active" /\ LineItems(cart_items, s) = {}) =>
            /\ req'["w1"].status = 400
            /\ sessions' = sessions
            /\ receipts' = receipts
            /\ cart_items' = cart_items

C8_EmptyCartRefused == [][C8_EmptyCart]_vars

C8_Witness ==
    /\ req["w1"].op = "checkout" /\ req["w1"].status = 400
    /\ \E s \in 1..Len(sessions) :
          sessions[s].status = "active" /\ LineItems(cart_items, s) = {}
    /\ receipts = <<>>

\* ------------------------------------------------------------------ C9
\* C9: the cart line items of a completed session never change: none is changed,
\* added or deleted.
C9_CompletedCartKept ==
    \A s \in 1..Len(sessions) :
        sessions[s].status = "completed" =>
            LineItems(cart_items', s) = LineItems(cart_items, s)

C9_CompletedCartUntouched == [][C9_CompletedCartKept]_vars

\* ------------------------------------------------------------------ C10
\* C10: there is at most one cart line item per (session, product) pair, and an
\* addItem of a product that has a line item in the active session's cart adds the
\* requested quantity to that line item and creates none.
C10_UniquePair ==
    \A r, o \in cart_items :
        (r.session_id = o.session_id /\ r.product_id = o.product_id) => r = o

C10_RepeatAdd ==
    \A s \in SessionArgs, p \in ProductArgs, q \in Quantities :
        add_item_to_cart("w1", s, p, q) =>
            \A r \in cart_items :
                (r.session_id = s /\ r.product_id = p /\ StatusOf(s) = "active") =>
                    cart_items' = (cart_items \ {r}) \cup {[r EXCEPT !.quantity = r.quantity + q]}

C10_AddAccumulates == []C10_UniquePair /\ [][C10_RepeatAdd]_vars

\* A line item whose quantity two adds built up.
C10_Witness ==
    /\ req["w1"].op = "add" /\ req["w1"].status = 200
    /\ \E r \in cart_items : r.quantity = 4
    /\ Cardinality(cart_items) = 1

\* ------------------------------------------------------------------ C11
\* C11: removeItem is decrement-by-one: on a line item with quantity greater than 1
\* it lowers the quantity by exactly 1 and keeps the line item; on a line item with
\* quantity 1 it deletes the line item; when the (session, product) pair has no line
\* item it answers 404 and changes nothing.
C11_RemoveStep ==
    \A s \in SessionArgs, p \in ProductArgs :
        remove_item_from_cart("w1", s, p) =>
            LET found == {r \in cart_items : r.session_id = s /\ r.product_id = p} IN
            IF found = {}
            THEN /\ req'["w1"].status = 404
                 /\ UNCHANGED <<store, active_connections, ws>>
            ELSE \A r \in found :
                    IF r.quantity > 1
                    THEN cart_items' =
                            (cart_items \ {r}) \cup {[r EXCEPT !.quantity = r.quantity - 1]}
                    ELSE cart_items' = cart_items \ {r}

C11_DecrementByOne == [][C11_RemoveStep]_vars

\* A removeItem that left the line item in the cart, one lower.
C11_Witness ==
    /\ req["w1"].op = "remove" /\ req["w1"].status = 200
    /\ Len(req["w1"].snap.items) = 1
    /\ req["w1"].snap.items[1].quantity = 1
    /\ \E r \in cart_items : r.quantity = 1

\* ------------------------------------------------------------------ C12
\* C12: in every reachable state the quantity of every stored cart line item is a
\* positive integer; an addItem whose quantity is not a positive increment is refused.
C12_PositiveQuantity ==
    /\ \A r \in cart_items : r.quantity \in Nat /\ r.quantity >= 1
    /\ (req["w1"].op = "add" /\ req["w1"].status = 200) =>
            \A i \in 1..Len(req["w1"].snap.items) : req["w1"].snap.items[i].quantity >= 1

\* An addItem of quantity 0 was refused and the cart kept its line item.
C12_Witness ==
    /\ req["w1"].op = "add" /\ req["w1"].status = 422
    /\ \E r \in cart_items : r.quantity = 1

\* ------------------------------------------------------------------ C13
\* C13: register a phone, verify with code "1234", start a session, add product 7
\* (price 3.50) with quantity 2: total 7.00; add product 7 with quantity 1: total
\* 10.50; remove product 7 once: total 7.00; checkout: a receipt with total 7.00 and
\* exactly one receipt line item, of quantity 2, and the session is completed.
C13_Visit ==
    LET r == req["w1"] IN
    /\ nreq = 1 => r.op = "register" /\ r.status = 201 /\ users = <<"555-0100">>
    /\ nreq = 2 => r.op = "verify" /\ r.status = 200 /\ r.ret = 1
    /\ nreq = 3 => r.op = "start" /\ r.status = 201 /\ r.ret = 1 /\ StatusOf(1) = "active"
    /\ nreq = 4 => r.op = "add" /\ r.status = 200 /\ r.snap.current_total = 7000
    /\ nreq = 5 => r.op = "add" /\ r.status = 200 /\ r.snap.current_total = 10500
    /\ nreq = 6 => r.op = "remove" /\ r.status = 200 /\ r.snap.current_total = 7000
    /\ nreq = 7 =>
          /\ r.op = "checkout" /\ r.status = 200
          /\ Len(receipts) = 1
          /\ receipts[1].session_id = 1
          /\ receipts[1].total_amount = 7000
          /\ Len(receipts[1].details) = 1
          /\ receipts[1].details[1].quantity = 2
          /\ receipts[1].details[1].product_id = 7
          /\ StatusOf(1) = "completed"

\* The visit is over, the price of product 7 has changed since it was picked up.
C13_Witness ==
    /\ nreq = 7
    /\ Len(receipts) = 1
    /\ products[7] # 3500

\* ------------------------------------------------------------------ C14
\* C14: every session has at most one receipt in every reachable state, also when
\* two checkout requests for the same active session are processed concurrently.
C14_OneReceiptPerSession ==
    \A i, j \in 1..Len(receipts) :
        receipts[i].session_id = receipts[j].session_id => i = j

\* ------------------------------------------------------------------ C15
\* C15: concurrent addItem requests on the same line item interleave their
\* read-modify-write of the quantity: the handler computes the new quantity from the
\* quantity it read, and its commit stores that number whatever the line item holds
\* by then, so a state is reachable in which both requests report success and the
\* stored quantity reflects only one of the two updates.
C15_Read ==
    \A w \in Workers, s \in SessionArgs, p \in ProductArgs, q \in Quantities :
        (AddItemQuery(w, s, p, q) /\ req'[w].pc = "commit" /\ req'[w].row # 0) =>
            \E r \in cart_items :
                /\ r.id = req'[w].row /\ r.session_id = s /\ r.product_id = p
                /\ req'[w].quantity = r.quantity + q

C15_Write ==
    \A w \in Workers :
        (AddItemCommit(w) /\ req[w].row # 0 /\ req'[w].pc = "reread") =>
            \E r \in cart_items :
                /\ r.id = req[w].row
                /\ cart_items' = (cart_items \ {r}) \cup {[r EXCEPT !.quantity = req[w].quantity]}

C15_UnguardedReadModifyWrite == [][C15_Read /\ C15_Write]_vars

\* Four requests: a session started and three adds answered 200 on its one line
\* item (the subscriber saw quantity 1, then 2, then 2); the last two ran side by
\* side and the line item holds 2.
C15_Witness ==
    /\ nreq = 4 /\ Len(sessions) = 1
    /\ \A w \in Workers :
          /\ req[w].op = "add" /\ req[w].pc = "done" /\ req[w].status = 200
          /\ req[w].snap.session_id = 1
    /\ Len(ws["A"].inbox) = 3
    /\ \A i \in 1..3 : Len(ws["A"].inbox[i].items) = 1
    /\ ws["A"].inbox[1].items[1].quantity = 1
    /\ ws["A"].inbox[2].items[1].quantity = 2
    /\ ws["A"].inbox[3].items[1].quantity = 2
    /\ Cardinality(cart_items) = 1
    /\ \A r \in cart_items : r.quantity = 2

\* ------------------------------------------------------------------ C16
\* C16: when addItem and checkout for the same active session run concurrently and
\* both report success, then, once both have finished, the receipt's total is the
\* sum of quantity x price_at_pickup over the session's cart line items and there is
\* one receipt line item per cart line item.
C16_ReceiptCoversCart ==
    \A w, v \in Workers :
        ( /\ req[w].op = "add" /\ req[w].pc = "done" /\ req[w].status = 200
          /\ req[v].op = "checkout" /\ req[v].pc = "done" /\ req[v].status = 200
          /\ receipts[req[v].ret].session_id = req[w].snap.session_id ) =>
            LET rc   == receipts[req[v].ret]
                rows == LineItems(cart_items, rc.session_id)
            IN  /\ RoundedTo2(rc.total_amount, LineItemsValue(rows))
                /\ Len(rc.details) = Cardinality(rows)

\* ------------------------------------------------------------------ C17
\* C17: the closing of a channel that was replaced as the subscriber of a session
\* does not remove the registration of the channel that replaced it.
C17_OthersStayRegistered ==
    \A c \in Channels :
        WsDisconnect(c) =>
            \A s \in DOMAIN active_connections :
                active_connections[s] # c =>
                    /\ s \in DOMAIN active_connections'
                    /\ active_connections'[s] = active_connections[s]

C17_ReplacedCloseKeepsSuccessor == [][C17_OthersStayRegistered]_vars

\* ------------------------------------------------------------------ C18
\* C18: subscribing registers the channel as the subscriber of the session in place
\* of any prior one, leaves every other session's entry alone and delivers nothing;
\* a snapshot published for a session is delivered only to the channel that
\* subscribed to that session last.
C18_Subscribe ==
    \A c \in Channels, s \in WsSessionIds :
        WsConnect(c, s) =>
            /\ DOMAIN active_connections' = DOMAIN active_connections \cup {s}
            /\ active_connections'[s] = c
            /\ \A x \in DOMAIN active_connections \ {s} :
                  active_connections'[x] = active_connections[x]
            /\ \A d \in Channels : ws'[d].inbox = ws[d].inbox

\* The channels that have subscribed to s; B subscribes after A.
C18_Subscribed(s) == {c \in Channels : ws[c].state # "new" /\ ws[c].session_id = s}

C18_Latest(s) == IF "B" \in C18_Subscribed(s) THEN "B" ELSE "A"

C18_Delivery ==
    \A c \in Channels :
        ws'[c].inbox # ws[c].inbox =>
            LET snap == ws'[c].inbox[Len(ws'[c].inbox)] IN
            /\ ws'[c].inbox = Append(ws[c].inbox, snap)
            /\ c \in C18_Subscribed(snap.session_id)
            /\ c = C18_Latest(snap.session_id)
            /\ \A d \in Channels \ {c} : ws'[d].inbox = ws[d].inbox

C18_OneSubscriberNoFanOut == [][C18_Subscribe /\ C18_Delivery]_vars

\* A and B are both open on session 1: A got the snapshot published before B
\* subscribed, B alone the one published after.
C18_Witness ==
    /\ \A c \in Channels : ws[c].state = "open" /\ ws[c].session_id = 1
    /\ active_connections[1] = "B"
    /\ Len(ws["A"].inbox) = 1 /\ Len(ws["B"].inbox) = 1
    /\ ws["A"].inbox[1] # ws["B"].inbox[1]

\* ------------------------------------------------------------------ C19
\* C19: checkout never publishes: a successful or failed checkout delivers nothing
\* and leaves the connection registry unchanged; a snapshot is delivered only by a
\* successful addItem or removeItem.
C19_CheckoutSilent ==
    \A s \in SessionArgs :
        checkout("w1", s) => UNCHANGED <<ws, active_connections>>

C19_OnlyCartCalls ==
    \A c \in Channels :
        Len(ws'[c].inbox) # Len(ws[c].inbox) =>
            /\ nreq' = nreq + 1
            /\ req'["w1"].op \in {"add", "remove"}
            /\ req'["w1"].status = 200

C19_CheckoutNeverPublishes == [][C19_CheckoutSilent /\ C19_OnlyCartCalls]_vars

\* A checkout answered 200 while the session's subscriber was open and registered:
\* the subscriber holds the one snapshot of the add.
C19_Witness ==
    /\ req["w1"].op = "checkout" /\ req["w1"].status = 200
    /\ ws["A"].state = "open"
    /\ ws["A"].session_id = receipts[req["w1"].ret].session_id
    /\ ws["A"].session_id \in DOMAIN active_connections
    /\ active_connections[ws["A"].session_id] = "A"
    /\ Len(ws["A"].inbox) = 1

\* ------------------------------------------------------------------ C20
\* C20: the session status is one-way: a session is created active, only a
\* successful checkout of it moves it to completed, and a completed session never
\* becomes active again.
C20_StatusStep ==
    /\ Len(sessions') >= Len(sessions)
    /\ \A s \in 1..Len(sessions) :
          /\ sessions'[s].user_id = sessions[s].user_id
          /\ sessions[s].status = "completed" => sessions'[s].status = "completed"
          /\ sessions'[s].status # sessions[s].status =>
                /\ sessions[s].status = "active" /\ sessions'[s].status = "completed"
                /\ req'["w1"].op = "checkout" /\ req'["w1"].status = 200
                /\ receipts' # receipts
                /\ receipts'[Len(receipts')].session_id = s
    /\ \A s \in (Len(sessions) + 1)..Len(sessions') :
          /\ sessions'[s].status = "active"
          /\ req'["w1"].op = "start" /\ req'["w1"].status = 201 /\ req'["w1"].ret = s

C20_OneWayStatus == [][C20_StatusStep]_vars

\* Session 1 is completed and stays so: an addItem on it was refused.
C20_Witness ==
    /\ Len(sessions) = 1 /\ StatusOf(1) = "completed"
    /\ req["w1"].op = "add" /\ req["w1"].status = 404
    /\ LineItems(cart_items, 1) # {}

====
